---- MODULE Spec2Model ----
(***************************************************************************)
(* Controle-Financeiro backend (FastAPI + SQLModel): user accounts, JWT    *)
(* authentication, transactions, credit-card invoices and the dashboard    *)
(* summary.  The model follows src/backend/app/*.py handler by handler.    *)
(*                                                                         *)
(* Conventions                                                             *)
(*   - An Optional value is a sequence: <<>> is None/NULL, <<v>> is v.     *)
(*   - A table is a function from the set of primary keys in use to rows.  *)
(*   - A Python str that the code converts (the token subject) is a        *)
(*     sequence of one-character strings.                                  *)
(*   - Money is an integer (the float arithmetic of the code is exact on   *)
(*     the integral amounts used here).                                    *)
(*   - An HTTP outcome is a record [status, detail]; the error kinds of    *)
(*     the design are the status codes the handlers raise.                 *)
(***************************************************************************)
EXTENDS Integers, Sequences, FiniteSets, TLC

VARIABLES
    users,       \* table User:         id -> [email, hashed_password, salario]
    transacoes,  \* table Transacao:    id -> [user_id, tipo, valor, data]
    faturas,     \* table CartaoFatura: id -> [user_id, instituicao, valor, mes, ano, pago]
    regs,        \* register requests:  slot -> [pc, payload, result]
    now,         \* the UTC clock, in whole seconds
    bearer,      \* the token the client holds (<<>> before any login)
    last         \* the last completed request: [op, args, result]

vars == <<users, transacoes, faturas, regs, now, bearer, last>>

(***************************************************************************)
(* Bounds of the model.                                                    *)
(***************************************************************************)
MaxRegs == 3         \* register requests that may be in flight or finished
MaxDays == 1         \* the clock runs to MaxDays token lifetimes (+1 s)
MaxTransacoes == 2   \* Transacao rows the CRUD handlers are exercised on
MaxFaturas == 1      \* CartaoFatura rows the CRUD handlers are exercised on
MaxSeedTransacoes == 2   \* Transacao rows of a ledger the dashboard is asked about
MaxSeedFaturas == 2      \* CartaoFatura rows of a ledger the dashboard is asked about
MaxSharedTransacoes == 1 \* Transacao rows of the ledger two users work on
MaxSharedFaturas == 2    \* CartaoFatura rows of the ledger two users work on

(***************************************************************************)
(* Program constants.                                                      *)
(***************************************************************************)
ACCESS_TOKEN_EXPIRE_MINUTES == 1440
SenhaMinLength == 4
SenhaMaxLength == 72
RegisterMaxLen == 72

None == <<>>
Some(v) == <<v>>
IsNone(o) == o = <<>>
Get(o) == o[1]

(***************************************************************************)
(* HTTP outcomes.                                                          *)
(***************************************************************************)
Http(status, detail) == [status |-> status, detail |-> detail]
Created == Http(201, "")
Ok == Http(200, "")
NoContent == Http(204, "")
SenhaMuitoLonga == Http(400, "Senha muito longa. O tamanho maximo e de 72 caracteres.")
Unprocessable == Http(422, "string length out of range")
EmailJaCadastrado == Http(409, "Email ja cadastrado")
CredenciaisInvalidas == Http(401, "Credenciais invalidas")
credentials_exception == Http(401, "Nao autenticado")
InternalServerError == Http(500, "ValueError")

IsValidationError(r) == r.status \in {400, 422}
IsConflictError(r) == r.status = 409
IsAuthError(r) == r.status = 401
IsForbiddenError(r) == r.status = 403
IsNotFoundError(r) == r.status = 404
IsSuccess(r) == r.status \in {200, 201, 204}

(***************************************************************************)
(* Passwords.  A plaintext is described by what the code looks at: its     *)
(* text, len(senha) in characters and its UTF-8 length in bytes.           *)
(***************************************************************************)
Senha(text, chars, bytes) == [text |-> text, chars |-> chars, bytes |-> bytes]
pwA == Senha("pwA", 8, 8)
pwB == Senha("pwB", 8, 8)
pw72 == Senha("pw72", 72, 72)          \* 72 ASCII characters
pwMulti == Senha("pwMulti", 40, 80)    \* 40 two-byte characters
pwLong == Senha("pwLong", 73, 73)      \* 73 ASCII characters

\* pwd_context.hash: an opaque bcrypt digest of the plaintext.
hash_password(password) == [scheme |-> "bcrypt", of |-> password.text]

\* pwd_context.verify
verify_password(plain_password, hashed_password) ==
    hashed_password.of = plain_password.text

(***************************************************************************)
(* Table helpers.                                                          *)
(***************************************************************************)
EmptyTable == [k \in {} |-> 0]
Insert(table, k, row) == [x \in DOMAIN table \cup {k} |-> IF x = k THEN row ELSE table[x]]
\* Fault injection for C15: a delete that leaves the row in place.
SoftDelete(table, k) == table
\* session.delete(row); session.commit()
Delete(table, k) == [x \in DOMAIN table \ {k} |-> table[x]]
SetMax(S) == IF S = {} THEN 0 ELSE CHOOSE m \in S : \A x \in S : x <= m

\* The primary key the database gives a new row (INTEGER PRIMARY KEY: max + 1).
NextId(table) == SetMax(DOMAIN table) + 1

\* select(User).where(User.email == email).first()
UserByEmail(email) == {id \in DOMAIN users : users[id].email = email}

(***************************************************************************)
(* POST /users/register.  The pre-query and the commit are two statements  *)
(* of the handler, so other requests may run between them.                 *)
(***************************************************************************)
Emails == {"a@x.com", "b@x.com"}
RegisterPayloads ==
    {[email |-> e, senha |-> s, salario |-> Some(0)] : e \in Emails, s \in {pwA, pwMulti}}
    \cup {[email |-> "a@x.com", senha |-> pwLong, salario |-> Some(0)],
          [email |-> "b@x.com", senha |-> pw72, salario |-> None]}

NoPayload == [email |-> "", senha |-> Senha("", 0, 0), salario |-> None]
NoUser == [id |-> 0, email |-> "", salario |-> None]
Pending == Http(0, "")
IdleReg == [pc |-> "idle", payload |-> NoPayload, result |-> Pending, user |-> NoUser, at |-> ""]

\* "at" is where the handler finished: "schema" (request validation), "length"
\* (line 62), "prequery" (line 67) or "commit" (lines 77-84).

\* schemas.UserCreate: senha has min_length=4, max_length=72 (characters).
UserCreateValid(payload) ==
    /\ payload.senha.chars >= SenhaMinLength
    /\ payload.senha.chars <= SenhaMaxLength

\* schemas.User, the response model: the row without the hash.
UserOut(id, row) == [id |-> id, email |-> row.email, salario |-> row.salario]

\* Lines 61-72: validation, the pre-query, and the hash.
register_begin(r, payload) ==
    /\ regs[r].pc = "idle"
    /\ \A q \in 1..(r-1) : regs[q].pc # "idle"
    /\ regs' = [regs EXCEPT ![r] =
         IF ~UserCreateValid(payload)
           THEN [pc |-> "done", payload |-> payload, result |-> Unprocessable, user |-> NoUser, at |-> "schema"]
         ELSE IF payload.senha.chars > RegisterMaxLen
           THEN [pc |-> "done", payload |-> payload, result |-> SenhaMuitoLonga, user |-> NoUser, at |-> "length"]
         ELSE IF UserByEmail(payload.email) # {}
           THEN [pc |-> "done", payload |-> payload, result |-> EmailJaCadastrado, user |-> NoUser, at |-> "prequery"]
         ELSE [pc |-> "queried", payload |-> payload, result |-> Pending, user |-> NoUser, at |-> ""]]
    /\ UNCHANGED <<users, transacoes, faturas, now, bearer, last>>

\* The row register builds: model_dump() with senha replaced by its hash.
NewUserRow(payload) ==
    [email |-> payload.email,
     hashed_password |-> hash_password(payload.senha),
     salario |-> payload.salario]

\* Fault injection for C1: User.email without its unique index.
NoUniqueIndex(row) == FALSE

\* The unique index on User.email (models.py) decides the INSERT.
UniqueEmailViolated(row) == UserByEmail(row.email) # {}

\* Lines 74-84: add, commit, refresh; IntegrityError -> rollback, 409.
register_commit(r) ==
    /\ regs[r].pc = "queried"
    /\ LET row == NewUserRow(regs[r].payload)
           id == NextId(users)
       IN IF UniqueEmailViolated(row)
            THEN /\ regs' = [regs EXCEPT ![r].pc = "done", ![r].result = EmailJaCadastrado,
                                         ![r].at = "commit"]
                 /\ UNCHANGED users
            ELSE /\ users' = Insert(users, id, row)
                 /\ regs' = [regs EXCEPT ![r].pc = "done", ![r].result = Created,
                                         ![r].user = UserOut(id, row), ![r].at = "commit"]
    /\ UNCHANGED <<transacoes, faturas, now, bearer, last>>

NoLast == [op |-> "", args |-> <<>>, result |-> Pending, out |-> <<>>, at |-> 0, found |-> <<>>]

InitRegister ==
    /\ users = EmptyTable
    /\ transacoes = EmptyTable
    /\ faturas = EmptyTable
    /\ regs = [r \in 1..MaxRegs |-> IdleReg]
    /\ now = 0
    /\ bearer = None
    /\ last = NoLast

NextRegister ==
    \/ \E r \in 1..MaxRegs, payload \in RegisterPayloads : register_begin(r, payload)
    \/ \E r \in 1..MaxRegs : register_commit(r)

SpecRegister == InitRegister /\ [][NextRegister]_vars

(***************************************************************************)
(* Python str(int) and int(str), on strings as sequences of characters.    *)
(***************************************************************************)
Digit == <<"0", "1", "2", "3", "4", "5", "6", "7", "8", "9">>
IsDigit(c) == \E i \in 1..10 : Digit[i] = c
DigitValue(c) == (CHOOSE i \in 1..10 : Digit[i] = c) - 1

RECURSIVE str(_)
str(n) ==
    IF n < 0 THEN <<"-">> \o str(-n)
    ELSE IF n < 10 THEN <<Digit[n + 1]>>
    ELSE Append(str(n \div 10), Digit[(n % 10) + 1])

RECURSIVE StripLeft(_)
StripLeft(s) == IF s # <<>> /\ Head(s) = " " THEN StripLeft(Tail(s)) ELSE s
RECURSIVE StripRight(_)
StripRight(s) ==
    IF s # <<>> /\ s[Len(s)] = " " THEN StripRight(SubSeq(s, 1, Len(s) - 1)) ELSE s
RECURSIVE DigitsValue(_)
DigitsValue(s) ==
    IF s = <<>> THEN 0
    ELSE 10 * DigitsValue(SubSeq(s, 1, Len(s) - 1)) + DigitValue(s[Len(s)])

\* int(s): surrounding whitespace and one sign are accepted; anything else that is
\* not a run of digits raises ValueError (ok = FALSE).
int(s) ==
    LET t == StripRight(StripLeft(s))
        signed == t # <<>> /\ Head(t) \in {"+", "-"}
        body == IF signed THEN Tail(t) ELSE t
        ok == body # <<>> /\ \A i \in 1..Len(body) : IsDigit(body[i])
    IN [ok |-> ok,
        value |-> IF ~ok THEN 0
                  ELSE IF signed /\ Head(t) = "-" THEN 0 - DigitsValue(body)
                  ELSE DigitsValue(body)]

(***************************************************************************)
(* Tokens (python-jose, HS256).  A token is its claims and whether its     *)
(* signature verifies under SECRET_KEY.                                    *)
(***************************************************************************)
TTL == ACCESS_TOKEN_EXPIRE_MINUTES * 60     \* timedelta(minutes=...) in seconds

Token(sig, sub, exp) == [sig |-> sig, sub |-> sub, exp |-> exp]

\* jwt.encode(to_encode, SECRET_KEY, algorithm=ALGORITHM)
jwt_encode(to_encode) == Token("valid", to_encode.sub, to_encode.exp)

\* create_access_token(data) at clock t, with the default expires_delta.
create_access_token(data, t) ==
    LET expire == t + TTL
    IN jwt_encode([sub |-> data.sub, exp |-> Some(expire)])

\* The expiry test of jwt.decode (python-jose, _validate_exp): exp and the clock are
\* whole seconds, and the token is rejected when exp < now.
ExpRejected(exp, t) == exp < t

\* jwt.decode(token, SECRET_KEY, algorithms=[ALGORITHM]): JWTError (ok = FALSE) on
\* a signature that does not verify or on an expired token.
jwt_decode(token, t) ==
    IF token.sig # "valid" THEN [ok |-> FALSE, payload |-> Token("", None, None)]
    ELSE IF token.exp # None /\ ExpRejected(Get(token.exp), t)
        THEN [ok |-> FALSE, payload |-> Token("", None, None)]
    ELSE [ok |-> TRUE, payload |-> token]

Resolved(result, id) == [result |-> result, id |-> id]

\* session.get(models.User, id)
SessionGetUser(U, id) == IF id \in DOMAIN U THEN Some(id) ELSE None

\* get_current_user(token): the outcome, and the id of the user it returns (0: none).
get_current_user(token, t, U) ==
    LET decoded == jwt_decode(token, t)
        user_id == decoded.payload.sub
    IN IF ~decoded.ok THEN Resolved(credentials_exception, 0)
       ELSE IF user_id = None THEN Resolved(credentials_exception, 0)
       ELSE LET parsed == int(Get(user_id))
            IN IF ~parsed.ok THEN Resolved(InternalServerError, 0)
               ELSE LET user == SessionGetUser(U, parsed.value)
                    IN IF user = None THEN Resolved(credentials_exception, 0)
                       ELSE Resolved(Ok, Get(user))

(***************************************************************************)
(* POST /users/token, GET /users/me, PUT /users/me, and the clock.         *)
(***************************************************************************)
\* "at" is the clock when the request was served.
Last(op, args, result, out) ==
    [op |-> op, args |-> args, result |-> result, out |-> out, at |-> now, found |-> None]

\* The same for a handler that fetched an entity by id: "found" is what
\* session.get returned, before the handler changed or deleted it.
Served(op, args, result, out, found) ==
    [op |-> op, args |-> args, result |-> result, out |-> out, at |-> now, found |-> found]

Usernames == Emails \cup {"nobody@x.com"}
LoginPasswords == {pwA, pwB}

\* Fault injection for C6: a 401 that tells an unknown email from a wrong password.
LoginDistinguishes(user) == IF user = {} THEN Http(401, "Email nao encontrado") ELSE CredenciaisInvalidas

\* The 401 of login (line 95).
LoginFailure(user) == CredenciaisInvalidas

\* Fault injection for C7: the subject is not the id of the user who logged in.
LoginSubjectOffByOne(id) == str(id - 1)

\* The subject login puts in the token (line 98).
LoginSubject(id) == str(id)

login(username, password) ==
    LET user == UserByEmail(username)
        id == CHOOSE i \in user : TRUE
    IN /\ IF user = {} \/ ~verify_password(password, users[id].hashed_password)
            THEN /\ last' = Last("login", [username |-> username, password |-> password],
                                 LoginFailure(user), None)
                 /\ UNCHANGED bearer
            ELSE LET access_token == create_access_token([sub |-> Some(LoginSubject(id))], now)
                 IN /\ last' = Last("login", [username |-> username, password |-> password],
                                    Ok, Some(access_token))
                    /\ bearer' = Some(access_token)
       /\ UNCHANGED <<users, transacoes, faturas, regs, now>>

\* Tokens a client may present besides the one login gave it.
FarFuture == (MaxDays + 2) * TTL
CraftedTokens ==
    {Token("invalid", Some(str(1)), Some(FarFuture)),       \* signed with another key
     Token("valid", None, Some(FarFuture)),                 \* no subject
     Token("valid", Some(<<"a", "b", "c">>), Some(FarFuture)), \* subject is no number
     Token("valid", Some(str(3)), Some(FarFuture)),         \* subject names no user
     Token("valid", Some(<<" ", "2">>), Some(FarFuture)),   \* int(" 2") = 2
     Token("valid", Some(str(1)), Some(0))}                 \* expires at clock 0
PresentedTokens == {bearer[i] : i \in 1..Len(bearer)} \cup CraftedTokens

get_me(token) ==
    LET current == get_current_user(token, now, users)
    IN /\ last' = Last("get_me", [token |-> token], current.result,
                       IF IsSuccess(current.result)
                         THEN Some(UserOut(current.id, users[current.id])) ELSE None)
       /\ UNCHANGED <<users, transacoes, faturas, regs, now, bearer>>

SalarioUpdates == {None, Some(0), Some(0 - 50)}

\* Fault injection for C12: "if payload.salario:", which takes 0 for absent.
SalarioTruthy(salario) == salario # None /\ salario # Some(0)

\* payload.salario is not None (line 137)
SalarioProvided(salario) == salario # None

update_me(token, salario) ==
    LET current == get_current_user(token, now, users)
        id == current.id
    IN /\ IF ~IsSuccess(current.result)
            THEN /\ UNCHANGED users
                 /\ last' = Last("update_me", [token |-> token, salario |-> salario],
                                 current.result, None)
            ELSE /\ users' = IF SalarioProvided(salario)
                               THEN [users EXCEPT ![id].salario = salario] ELSE users
                 /\ last' = Last("update_me", [token |-> token, salario |-> salario],
                                 Ok, Some(UserOut(id, users'[id])))
       /\ UNCHANGED <<transacoes, faturas, regs, now, bearer>>

\* The clock values looked at: each token lifetime boundary, one second either side.
ClockValues == {k * TTL + d : k \in 0..MaxDays, d \in {0 - 1, 0, 1}} \cap Nat

Tick ==
    /\ \E t \in ClockValues : t > now /\ now' = t
    /\ UNCHANGED <<users, transacoes, faturas, regs, bearer, last>>

\* Two registered users (the state after two successful register calls).
RegisteredUsers ==
    Insert(Insert(EmptyTable, 1, NewUserRow([email |-> "a@x.com", senha |-> pwA, salario |-> Some(3000)])),
           2, NewUserRow([email |-> "b@x.com", senha |-> pwB, salario |-> None]))

InitAuth ==
    /\ users = RegisteredUsers
    /\ transacoes = EmptyTable
    /\ faturas = EmptyTable
    /\ regs = [r \in 1..MaxRegs |-> IdleReg]
    /\ now = 0
    /\ bearer = None
    /\ last = NoLast

NextAuth ==
    \/ \E username \in Usernames, password \in LoginPasswords : login(username, password)
    \/ \E token \in PresentedTokens : get_me(token)
    \/ \E token \in PresentedTokens, salario \in SalarioUpdates : update_me(token, salario)
    \/ Tick

SpecAuth == InitAuth /\ [][NextAuth]_vars

(***************************************************************************)
(* The ledger: /transacoes and /cartoes.  Every handler first resolves the *)
(* caller with Depends(auth.get_current_user).                             *)
(***************************************************************************)
Date(year, month, day) == [year |-> year, month |-> month, day |-> day]
Mar2024 == Date(2024, 3, 15)
Abr2024 == Date(2024, 4, 2)
Mar2023 == Date(2023, 3, 15)

TransacaoNaoEncontrada == Http(404, "Transacao nao encontrada")
SemPermissaoTransacao == Http(403, "Nao tem permissao para alterar ou deletar esta transacao")
FaturaNaoEncontrada == Http(404, "Fatura nao encontrada")
SemPermissaoFatura == Http(403, "Nao tem permissao para alterar ou deletar esta fatura")

\* schemas.Transacao as a request body; id and user_id are accepted and ignored.
TransacaoPayload(id, user_id, tipo, valor, data) ==
    [id |-> id, user_id |-> user_id, tipo |-> tipo, valor |-> valor,
     categoria |-> None, descricao |-> None, data |-> data]

\* Fault injection for C13: the owner taken from the request body when it names one.
TransacaoRowDoPayload(user_id, payload) ==
    [user_id |-> IF payload.user_id = None THEN user_id ELSE Get(payload.user_id),
     tipo |-> payload.tipo, valor |-> payload.valor,
     categoria |-> payload.categoria, descricao |-> payload.descricao,
     data |-> payload.data]

\* models.Transacao(user_id=current_user.id, tipo=payload.tipo, ...)
TransacaoRow(user_id, payload) ==
    [user_id |-> user_id, tipo |-> payload.tipo, valor |-> payload.valor,
     categoria |-> payload.categoria, descricao |-> payload.descricao,
     data |-> payload.data]

\* schemas.CartaoFatura as a request body.
FaturaPayload(id, user_id, valor, mes, ano, pago) ==
    [id |-> id, user_id |-> user_id, instituicao |-> "Nubank", valor |-> valor,
     mes |-> mes, ano |-> ano, pago |-> pago]

\* models.CartaoFatura(user_id=current_user.id, instituicao=payload.instituicao, ...)
FaturaRow(user_id, payload) ==
    [user_id |-> user_id, instituicao |-> payload.instituicao, valor |-> payload.valor,
     mes |-> payload.mes, ano |-> payload.ano, pago |-> payload.pago]

\* The response body: the row with its primary key.
WithId(id, row) == [id |-> id, row |-> row]

\* Fault injection for C3: the ownership check left out.
OwnershipUnchecked(row, current_user_id) == FALSE

\* t.user_id != current_user.id
NotOwner(row, current_user_id) == row.user_id # current_user_id

Request(token, id) == [token |-> token, id |-> id]

criar_transacao(token, payload) ==
    LET current == get_current_user(token, now, users)
        id == NextId(transacoes)
        t == TransacaoRow(current.id, payload)
    IN /\ IF ~IsSuccess(current.result)
            THEN /\ last' = Last("criar_transacao", Request(token, 0), current.result, None)
                 /\ UNCHANGED transacoes
            ELSE /\ transacoes' = Insert(transacoes, id, t)
                 /\ last' = Last("criar_transacao", Request(token, id), Created, Some(WithId(id, t)))
       /\ UNCHANGED <<users, faturas, regs, now, bearer>>

atualizar_transacao(token, transacao_id, payload) ==
    LET current == get_current_user(token, now, users)
        op == "atualizar_transacao"
    IN /\ IF ~IsSuccess(current.result)
            THEN /\ last' = Last(op, Request(token, transacao_id), current.result, None)
                 /\ UNCHANGED transacoes
          ELSE IF transacao_id \notin DOMAIN transacoes
            THEN /\ last' = Last(op, Request(token, transacao_id), TransacaoNaoEncontrada, None)
                 /\ UNCHANGED transacoes
          ELSE IF NotOwner(transacoes[transacao_id], current.id)
            THEN /\ last' = Served(op, Request(token, transacao_id), SemPermissaoTransacao, None,
                                   Some(transacoes[transacao_id]))
                 /\ UNCHANGED transacoes
          ELSE LET t == TransacaoRow(transacoes[transacao_id].user_id, payload)
               IN /\ transacoes' = [transacoes EXCEPT ![transacao_id] = t]
                  /\ last' = Served(op, Request(token, transacao_id), Ok, Some(WithId(transacao_id, t)),
                                   Some(transacoes[transacao_id]))
       /\ UNCHANGED <<users, faturas, regs, now, bearer>>

deletar_transacao(token, transacao_id) ==
    LET current == get_current_user(token, now, users)
        op == "deletar_transacao"
    IN /\ IF ~IsSuccess(current.result)
            THEN /\ last' = Last(op, Request(token, transacao_id), current.result, None)
                 /\ UNCHANGED transacoes
          ELSE IF transacao_id \notin DOMAIN transacoes
            THEN /\ last' = Last(op, Request(token, transacao_id), TransacaoNaoEncontrada, None)
                 /\ UNCHANGED transacoes
          ELSE IF NotOwner(transacoes[transacao_id], current.id)
            THEN /\ last' = Served(op, Request(token, transacao_id), SemPermissaoTransacao, None,
                                   Some(transacoes[transacao_id]))
                 /\ UNCHANGED transacoes
          ELSE /\ transacoes' = Delete(transacoes, transacao_id)
               /\ last' = Served(op, Request(token, transacao_id), NoContent, None,
                                   Some(transacoes[transacao_id]))
       /\ UNCHANGED <<users, faturas, regs, now, bearer>>

adicionar_fatura(token, payload) ==
    LET current == get_current_user(token, now, users)
        id == NextId(faturas)
        c == FaturaRow(current.id, payload)
    IN /\ IF ~IsSuccess(current.result)
            THEN /\ last' = Last("adicionar_fatura", Request(token, 0), current.result, None)
                 /\ UNCHANGED faturas
            ELSE /\ faturas' = Insert(faturas, id, c)
                 /\ last' = Last("adicionar_fatura", Request(token, id), Created, Some(WithId(id, c)))
       /\ UNCHANGED <<users, transacoes, regs, now, bearer>>

atualizar_fatura(token, cartao_id, payload) ==
    LET current == get_current_user(token, now, users)
        op == "atualizar_fatura"
    IN /\ IF ~IsSuccess(current.result)
            THEN /\ last' = Last(op, Request(token, cartao_id), current.result, None)
                 /\ UNCHANGED faturas
          ELSE IF cartao_id \notin DOMAIN faturas
            THEN /\ last' = Last(op, Request(token, cartao_id), FaturaNaoEncontrada, None)
                 /\ UNCHANGED faturas
          ELSE IF NotOwner(faturas[cartao_id], current.id)
            THEN /\ last' = Served(op, Request(token, cartao_id), SemPermissaoFatura, None,
                                   Some(faturas[cartao_id]))
                 /\ UNCHANGED faturas
          ELSE LET c == FaturaRow(faturas[cartao_id].user_id, payload)
               IN /\ faturas' = [faturas EXCEPT ![cartao_id] = c]
                  /\ last' = Served(op, Request(token, cartao_id), Ok, Some(WithId(cartao_id, c)),
                                   Some(faturas[cartao_id]))
       /\ UNCHANGED <<users, transacoes, regs, now, bearer>>

deletar_fatura(token, cartao_id) ==
    LET current == get_current_user(token, now, users)
        op == "deletar_fatura"
    IN /\ IF ~IsSuccess(current.result)
            THEN /\ last' = Last(op, Request(token, cartao_id), current.result, None)
                 /\ UNCHANGED faturas
          ELSE IF cartao_id \notin DOMAIN faturas
            THEN /\ last' = Last(op, Request(token, cartao_id), FaturaNaoEncontrada, None)
                 /\ UNCHANGED faturas
          ELSE IF NotOwner(faturas[cartao_id], current.id)
            THEN /\ last' = Served(op, Request(token, cartao_id), SemPermissaoFatura, None,
                                   Some(faturas[cartao_id]))
                 /\ UNCHANGED faturas
          ELSE /\ faturas' = Delete(faturas, cartao_id)
               /\ last' = Served(op, Request(token, cartao_id), NoContent, None,
                                   Some(faturas[cartao_id]))
       /\ UNCHANGED <<users, transacoes, regs, now, bearer>>

\* Fault injection for C16: the owner filter of the listings left out.
DeQualquerUsuario(row, user_id) == TRUE

\* .where(user_id == current_user.id) of the two listings
DoUsuario(row, user_id) == row.user_id = user_id

\* order_by(Transacao.data.desc()): d1 may come before d2.
DataDesc(d1, d2) ==
    \/ d1.year > d2.year
    \/ d1.year = d2.year /\ d1.month > d2.month
    \/ d1.year = d2.year /\ d1.month = d2.month /\ d1.day >= d2.day

\* order_by(CartaoFatura.ano.desc(), CartaoFatura.mes.desc())
AnoMesDesc(c1, c2) == c1.ano > c2.ano \/ (c1.ano = c2.ano /\ c1.mes >= c2.mes)

\* The ways to list the keys in ids once each.
KeyOrders(ids) ==
    LET n == Cardinality(ids)
    IN {seq \in [1..n -> ids] : \A i, j \in 1..n : i # j => seq[i] # seq[j]}

\* The answers listar_transacoes may give for the user: the user's rows, newest
\* date first; the database is free in the order of rows of one date.
ListagemTransacoes(user_id, T) ==
    LET mine == {k \in DOMAIN T : DoUsuario(T[k], user_id)}
    IN {[i \in DOMAIN seq |-> WithId(seq[i], T[seq[i]])] :
          seq \in {p \in KeyOrders(mine) :
                     \A i \in 1..(Len(p) - 1) : DataDesc(T[p[i]].data, T[p[i + 1]].data)}}

\* The answers listar_faturas may give for the user.
ListagemFaturas(user_id, F) ==
    LET mine == {k \in DOMAIN F : DoUsuario(F[k], user_id)}
    IN {[i \in DOMAIN seq |-> WithId(seq[i], F[seq[i]])] :
          seq \in {p \in KeyOrders(mine) :
                     \A i \in 1..(Len(p) - 1) : AnoMesDesc(F[p[i]], F[p[i + 1]])}}

listar_transacoes(token) ==
    LET current == get_current_user(token, now, users)
        op == "listar_transacoes"
    IN /\ IF ~IsSuccess(current.result)
            THEN last' = Last(op, Request(token, 0), current.result, None)
            ELSE \E trans \in ListagemTransacoes(current.id, transacoes) :
                    last' = Last(op, Request(token, 0), Ok, Some([rows |-> trans]))
       /\ UNCHANGED <<users, transacoes, faturas, regs, now, bearer>>

listar_faturas(token) ==
    LET current == get_current_user(token, now, users)
        op == "listar_faturas"
    IN /\ IF ~IsSuccess(current.result)
            THEN last' = Last(op, Request(token, 0), current.result, None)
            ELSE \E cartoes \in ListagemFaturas(current.id, faturas) :
                    last' = Last(op, Request(token, 0), Ok, Some([rows |-> cartoes]))
       /\ UNCHANGED <<users, transacoes, faturas, regs, now, bearer>>

\* The token a login of user id issued at clock 0.
TokenOf(id) == create_access_token([sub |-> Some(str(id))], 0)
CallerTokens == {TokenOf(id) : id \in DOMAIN RegisteredUsers}

\* Request bodies that name an id and an owner of their own.
TransacaoDeOutro == TransacaoPayload(Some(9), Some(2), "gasto", 200, Mar2024)
FaturaDeOutro == FaturaPayload(Some(9), Some(2), 800, 3, 2024, TRUE)

\* tipo is declared str: any string passes request validation.
LedgerTransacoes ==
    {TransacaoDeOutro,
     TransacaoPayload(None, None, "investimento", 500, Mar2024)}
LedgerFaturas == {FaturaDeOutro}

InitLedger ==
    /\ users = RegisteredUsers
    /\ transacoes = EmptyTable
    /\ faturas = EmptyTable
    /\ regs = [r \in 1..MaxRegs |-> IdleReg]
    /\ now = 0
    /\ bearer = None
    /\ last = NoLast

\* The tables are kept to MaxTransacoes and MaxFaturas rows.
NextLedger ==
    \/ \E token \in CallerTokens, payload \in LedgerTransacoes :
          NextId(transacoes) <= MaxTransacoes /\ criar_transacao(token, payload)
    \/ \E token \in CallerTokens, id \in 1..MaxTransacoes, payload \in LedgerTransacoes :
          atualizar_transacao(token, id, payload)
    \/ \E token \in CallerTokens, id \in 1..MaxTransacoes : deletar_transacao(token, id)
    \/ \E token \in CallerTokens, payload \in LedgerFaturas :
          NextId(faturas) <= MaxFaturas /\ adicionar_fatura(token, payload)
    \/ \E token \in CallerTokens, id \in 1..MaxFaturas, payload \in LedgerFaturas :
          atualizar_fatura(token, id, payload)
    \/ \E token \in CallerTokens, id \in 1..MaxFaturas : deletar_fatura(token, id)

SpecLedger == InitLedger /\ [][NextLedger]_vars

(***************************************************************************)
(* GET /dashboard.                                                         *)
(***************************************************************************)
\* The calendar date at clock t: clock 0 is 2024-03-31 12:00:00, so the date turns
\* to 1 April 43200 seconds later (a token may live across the end of a month).
DateOf(t) ==
    LET d == 31 + (t + 43200) \div 86400
    IN IF d <= 31 THEN Date(2024, 3, d) ELSE Date(2024, 4, d - 31)

\* Fault injection for C11: the date remembered from the request served before.
TodayOfLastRequest == DateOf(last.at)

\* date.today() when the request is served.
Today == DateOf(now)

RECURSIVE SumOver(_, _)
\* The sum of table[k].valor over the keys in ids.
SumOver(table, ids) ==
    IF ids = {} THEN 0
    ELSE LET k == CHOOSE x \in ids : TRUE
         IN table[k].valor + SumOver(table, ids \ {k})

\* select(func.sum(valor)) ... .first(): NULL when no row matches.
SqlSum(table, ids) == IF ids = {} THEN None ELSE Some(SumOver(table, ids))

\* Python's "x or 0.0": None and 0 both give 0.
OrZero(o) == IF o = None \/ o = Some(0) THEN 0 ELSE Get(o)

\* Fault injection for C8: the year filter left out.
TransacaoSoDoMes(t, user_id, tipo, mes, ano) ==
    t.user_id = user_id /\ t.tipo = tipo /\ t.data.month = mes

\* The WHERE clause of the two Transacao sums: owner, tipo, and month and year
\* extracted from the date.
TransacaoDoPeriodo(t, user_id, tipo, mes, ano) ==
    /\ t.user_id = user_id
    /\ t.tipo = tipo
    /\ t.data.month = mes
    /\ t.data.year = ano

\* Fault injection for C9: the owner filter left out.
FaturaDeQualquerUsuario(c, user_id, mes, ano) ==
    c.pago = FALSE /\ c.mes = mes /\ c.ano = ano
\* Fault injection for C10: the pago filter left out.
FaturaPagaOuNao(c, user_id, mes, ano) ==
    c.user_id = user_id /\ c.mes = mes /\ c.ano = ano

\* The WHERE clause of the CartaoFatura sum: owner, pago == False, mes, ano.
FaturaEmAberto(c, user_id, mes, ano) ==
    /\ c.user_id = user_id
    /\ c.pago = FALSE
    /\ c.mes = mes
    /\ c.ano = ano

DashboardData(total_receitas, total_gastos, total_dividas_abertas, saldo_atual, placar_dividas) ==
    [total_receitas |-> total_receitas, total_gastos |-> total_gastos,
     total_dividas_abertas |-> total_dividas_abertas, saldo_atual |-> saldo_atual,
     placar_dividas |-> placar_dividas]

\* Lines 28-74 for the resolved user, on the tables U, T, F.
Dashboard(user_id, mes, ano, U, T, F) ==
    LET soma_receitas_transacoes ==
            OrZero(SqlSum(T, {k \in DOMAIN T : TransacaoDoPeriodo(T[k], user_id, "receita", mes, ano)}))
        soma_gastos_transacoes ==
            OrZero(SqlSum(T, {k \in DOMAIN T : TransacaoDoPeriodo(T[k], user_id, "gasto", mes, ano)}))
        soma_dividas ==
            OrZero(SqlSum(F, {k \in DOMAIN F : FaturaEmAberto(F[k], user_id, mes, ano)}))
        total_receitas == OrZero(U[user_id].salario) + soma_receitas_transacoes
        total_gastos == soma_gastos_transacoes
        total_dividas_abertas == soma_dividas
        saldo_atual == total_receitas - total_gastos
        placar_dividas == saldo_atual - total_dividas_abertas
    IN DashboardData(total_receitas, total_gastos, total_dividas_abertas, saldo_atual, placar_dividas)

\* mes and ano are Optional query parameters.
get_dashboard_data(token, mes_arg, ano_arg) ==
    LET current == get_current_user(token, now, users)
        mes == IF mes_arg = None THEN Today.month ELSE Get(mes_arg)
        ano == IF ano_arg = None THEN Today.year ELSE Get(ano_arg)
        args == [token |-> token, mes |-> mes_arg, ano |-> ano_arg]
    IN /\ IF ~IsSuccess(current.result)
            THEN last' = Last("get_dashboard_data", args, current.result, None)
            ELSE last' = Last("get_dashboard_data", args, Ok,
                              Some(Dashboard(current.id, mes, ano, users, transacoes, faturas)))
       /\ UNCHANGED <<users, transacoes, faturas, regs, now, bearer>>

\* Ledgers the creates above can have built, which the dashboard is asked about.
SeedTransacoes ==
    <<TransacaoRow(1, TransacaoPayload(None, None, "receita", 500, Mar2024)),
      TransacaoRow(1, TransacaoPayload(None, None, "gasto", 200, Mar2024)),
      TransacaoRow(1, TransacaoPayload(None, None, "receita", 200, Abr2024)),
      TransacaoRow(1, TransacaoPayload(None, None, "gasto", 500, Mar2023)),
      TransacaoRow(2, TransacaoPayload(None, None, "receita", 500, Mar2024))>>
PayMar2024 == FaturaPayload(None, None, 800, 3, 2024, TRUE)
SeedFaturas ==
    <<FaturaRow(1, FaturaPayload(None, None, 800, 3, 2024, FALSE)),
      FaturaRow(1, PayMar2024),
      FaturaRow(1, FaturaPayload(None, None, 200, 4, 2024, FALSE)),
      FaturaRow(1, FaturaPayload(None, None, 800, 3, 2023, FALSE)),
      FaturaRow(2, FaturaPayload(None, None, 800, 3, 2024, FALSE))>>

\* The tables of up to n rows taken from seeds (a row may repeat), the rows in the
\* order of seeds: the sums do not depend on which primary key a row has.
TablesOf(seeds, n) ==
    UNION {{[i \in 1..k |-> seeds[g[i]]] :
              g \in {h \in [1..k -> 1..Len(seeds)] : \A i \in 1..(k - 1) : h[i] <= h[i + 1]}} :
           k \in 0..n}

Periods == {<<Some(3), Some(2024)>>, <<Some(4), Some(2024)>>, <<None, None>>}

InitDashboard ==
    /\ users = RegisteredUsers
    /\ transacoes \in TablesOf(SeedTransacoes, MaxSeedTransacoes)
    /\ faturas \in TablesOf(SeedFaturas, MaxSeedFaturas)
    /\ regs = [r \in 1..MaxRegs |-> IdleReg]
    /\ now = 0
    /\ bearer = None
    /\ last = NoLast

NextDashboard ==
    \/ \E token \in CallerTokens, p \in Periods : get_dashboard_data(token, p[1], p[2])
    \/ \E token \in CallerTokens, id \in 1..MaxSeedFaturas : atualizar_fatura(token, id, PayMar2024)

SpecDashboard == InitDashboard /\ [][NextDashboard]_vars

(***************************************************************************)
(* The account of a user over time: GET /users/me, GET /dashboard and      *)
(* PUT /users/me on a ledger that holds rows of both users, while the      *)
(* clock runs across the end of the month and the end of a token's life.   *)
(***************************************************************************)
\* The ledger after every seed row has been created, in the order of the seeds.
FullTable(seeds) == [k \in 1..Len(seeds) |-> seeds[k]]

AccountTokens == CallerTokens \cup CraftedTokens

InitAccount ==
    /\ users = RegisteredUsers
    /\ transacoes = FullTable(SeedTransacoes)
    /\ faturas = FullTable(SeedFaturas)
    /\ regs = [r \in 1..MaxRegs |-> IdleReg]
    /\ now = 0
    /\ bearer = None
    /\ last = NoLast

NextAccount ==
    \/ \E token \in AccountTokens : get_me(token)
    \/ \E token \in AccountTokens, p \in Periods : get_dashboard_data(token, p[1], p[2])
    \/ \E token \in AccountTokens, salario \in SalarioUpdates : update_me(token, salario)
    \/ Tick

SpecAccount == InitAccount /\ [][NextAccount]_vars

(***************************************************************************)
(* Registration: claims.                                                   *)
(***************************************************************************)
Slots == 1..MaxRegs
\* The register calls carrying email e that reached the credential store.
CallsFor(e) ==
    {r \in Slots : regs[r].pc # "idle" /\ regs[r].payload.email = e /\ regs[r].at \notin {"schema", "length"}}
Succeeded(e) == {r \in CallsFor(e) : regs[r].pc = "done" /\ regs[r].result = Created}

\* C1: for every email e, the register calls carrying e (those whose password the
\* length validation lets through), sequential or interleaved between pre-query and
\* commit: never two successes and never two rows; every finished call either
\* succeeded or got 409 Conflict; the row of e is the complete row of the call that
\* succeeded; and once all of them have finished exactly one succeeded, every other
\* one got ConflictError, and exactly one User row with email e exists.
C1_ExactlyOneRegistration ==
    \A e \in Emails :
        /\ Cardinality(Succeeded(e)) <= 1
        /\ Cardinality(UserByEmail(e)) = Cardinality(Succeeded(e))
        /\ \A r \in CallsFor(e) :
              regs[r].pc = "done" => regs[r].result = Created \/ IsConflictError(regs[r].result)
        /\ \A r \in Succeeded(e) :
              /\ regs[r].user.id \in DOMAIN users
              /\ users[regs[r].user.id] = NewUserRow(regs[r].payload)
        /\ (CallsFor(e) # {} /\ \A r \in CallsFor(e) : regs[r].pc = "done") =>
              /\ Cardinality(Succeeded(e)) = 1
              /\ \A r \in CallsFor(e) \ Succeeded(e) : IsConflictError(regs[r].result)
              /\ Cardinality(UserByEmail(e)) = 1

\* Witness of C1: a race was lost at commit time (the pre-query had passed), and a
\* third call was turned away by the pre-query.
C1_Witness ==
    \E e \in Emails : \E r1, r2, r3 \in CallsFor(e) :
        /\ regs[r1].result = Created
        /\ regs[r2].pc = "done" /\ IsConflictError(regs[r2].result) /\ regs[r2].at = "commit"
        /\ regs[r3].pc = "done" /\ IsConflictError(regs[r3].result) /\ regs[r3].at = "prequery"

\* C5 (as claimed): every finished register call whose password is longer than 72
\* bytes in its encoded form got ValidationError, and no row holds its hash.
C5_OverlongPasswordRejected ==
    \A r \in Slots :
        (regs[r].pc = "done" /\ regs[r].payload.senha.bytes > 72) =>
            /\ IsValidationError(regs[r].result)
            /\ \A id \in DOMAIN users :
                  users[id].hashed_password # hash_password(regs[r].payload.senha)

(***************************************************************************)
(* Authentication: claims.                                                 *)
(***************************************************************************)
\* The requests that pass through get_current_user with a token.
ResolvingOps == {"get_me", "update_me"}

\* C2 (as claimed): whenever a request presented a token whose signature is
\* invalid, or that has expired, or that has no subject, or whose subject does not
\* parse as an integer, or whose subject names no user, the outcome was the generic
\* 401 "not authenticated" and no user was returned.
C2_ResolveFailsWithAuthError ==
    last.op \in ResolvingOps =>
        LET token == last.args.token
            parsed == int(Get(token.sub))
        IN (\/ token.sig # "valid"
            \/ (token.exp # None /\ Get(token.exp) < last.at)
            \/ token.sub = None
            \/ ~parsed.ok
            \/ parsed.value \notin DOMAIN users)
           => (last.result = credentials_exception /\ last.out = None)

\* A request presented a token login issued, for a user that exists.
PresentedIssuedToken ==
    /\ last.op = "get_me"
    /\ bearer # None
    /\ last.args.token = Get(bearer)

\* C4 (as claimed): the token of a login at clock t expires at t + 24 h, and a
\* request presenting an issued token at clock now fails with AuthError when
\* expiry <= now and succeeds when now < expiry.
C4_ExpiryBoundary ==
    /\ (last.op = "login" /\ IsSuccess(last.result)) =>
          Get(last.out).exp = Some(last.at + 24 * 60 * 60)
    /\ PresentedIssuedToken =>
          LET expiry == Get(last.args.token.exp)
          IN /\ expiry <= last.at => IsAuthError(last.result)
             /\ last.at < expiry => IsSuccess(last.result)

\* What a login answered, and what a failed login may change.
C6_LoginState ==
    last.op = "login" =>
        LET user == UserByEmail(last.args.username)
            good == \E id \in user : verify_password(last.args.password, users[id].hashed_password)
        IN /\ IsSuccess(last.result) <=> good
           /\ good => last.out # None
           /\ ~good => (last.result = CredenciaisInvalidas /\ last.out = None)
C6_LoginStep ==
    (last' # last /\ last'.op = "login" /\ ~IsSuccess(last'.result)) =>
        UNCHANGED <<users, transacoes, faturas, regs, now, bearer>>
\* C6: a login issued a token exactly when a user with that email exists and the
\* password verifies against its hash; a failed login, whichever the reason, got
\* the one response 401 "invalid credentials" and no token; and a failed login
\* changes nothing (no row, no token held by the client).
C6_LoginGeneric == [](C6_LoginState) /\ [][C6_LoginStep]_vars

\* Witness of C6: both failures have been seen to give the same response: here the
\* email is unknown (the other failure is C6_WitnessWrongPassword).
C6_Witness ==
    /\ last.op = "login" /\ last.result = CredenciaisInvalidas
    /\ UserByEmail(last.args.username) = {}
C6_WitnessWrongPassword ==
    /\ last.op = "login" /\ last.result = CredenciaisInvalidas
    /\ UserByEmail(last.args.username) # {}

\* C7: the token of a successful login of the user with id S has subject str(S),
\* and resolving it at once yields the user with id S; a request that presents the
\* token at the clock of its issue is served as that user.
C7_TokenResolvesToSubject ==
    /\ (last.op = "login" /\ IsSuccess(last.result)) =>
          \E S \in UserByEmail(last.args.username) :
              /\ Get(last.out).sub = Some(str(S))
              /\ get_current_user(Get(last.out), last.at, users) = Resolved(Ok, S)
    /\ (PresentedIssuedToken /\ Get(last.args.token.exp) = last.at + TTL) =>
          /\ IsSuccess(last.result)
          /\ Some(str(Get(last.out).id)) = last.args.token.sub
          /\ users[Get(last.out).id].email = Get(last.out).email

\* Witness of C7: the second user's token was presented at the clock of its issue.
C7_Witness ==
    /\ PresentedIssuedToken
    /\ Get(last.args.token.exp) = last.at + TTL
    /\ IsSuccess(last.result)
    /\ Get(last.out).id = 2

(***************************************************************************)
(* Ledger and dashboard: claims.                                           *)
(***************************************************************************)
Caller(token) == get_current_user(token, now, users).id

\* An update or delete of an entity that exists, asked by a caller who does not own it.
C3_Step ==
    LET id == last'.args.id
        u == Caller(last'.args.token)
    IN /\ (/\ last' # last
           /\ last'.op \in {"atualizar_transacao", "deletar_transacao"}
           /\ u \in DOMAIN users
           /\ id \in DOMAIN transacoes
           /\ transacoes[id].user_id # u)
          => (IsForbiddenError(last'.result) /\ UNCHANGED <<users, transacoes, faturas>>)
       /\ (/\ last' # last
           /\ last'.op \in {"atualizar_fatura", "deletar_fatura"}
           /\ u \in DOMAIN users
           /\ id \in DOMAIN faturas
           /\ faturas[id].user_id # u)
          => (IsForbiddenError(last'.result) /\ UNCHANGED <<users, transacoes, faturas>>)
\* C3: a step that serves an update or a delete of an existing Transaction or
\* Invoice for an authenticated caller who is not its owner answers 403 Forbidden
\* and leaves every User, Transaction and Invoice row as it was.
C3_ForeignMutationForbidden == [][C3_Step]_vars

\* Witness of C3: an update of another user's transaction was refused, and the
\* transaction is still there.
C3_Witness ==
    /\ last.op = "atualizar_transacao"
    /\ IsForbiddenError(last.result)
    /\ last.args.id \in DOMAIN transacoes
    /\ transacoes[last.args.id].user_id # Caller(last.args.token)
    /\ last.found = Some(transacoes[last.args.id])

\* The period a dashboard request asked about.
AskedMes == IF last.args.mes = None THEN DateOf(last.at).month ELSE Get(last.args.mes)
AskedAno == IF last.args.ano = None THEN DateOf(last.at).year ELSE Get(last.args.ano)
DashboardServed == last.op = "get_dashboard_data" /\ IsSuccess(last.result)

\* The sums of the design, written as sums over every primary key.
RECURSIVE SumTo(_, _)
SumTo(f, n) == IF n = 0 THEN 0 ELSE f[n] + SumTo(f, n - 1)
IncomeTx(u, m, y) ==
    SumTo([k \in 1..MaxSeedTransacoes |->
             IF k \in DOMAIN transacoes /\ transacoes[k].user_id = u
                /\ transacoes[k].tipo = "receita"
                /\ transacoes[k].data.month = m /\ transacoes[k].data.year = y
             THEN transacoes[k].valor ELSE 0], MaxSeedTransacoes)
ExpenseTx(u, m, y) ==
    SumTo([k \in 1..MaxSeedTransacoes |->
             IF k \in DOMAIN transacoes /\ transacoes[k].user_id = u
                /\ transacoes[k].tipo = "gasto"
                /\ transacoes[k].data.month = m /\ transacoes[k].data.year = y
             THEN transacoes[k].valor ELSE 0], MaxSeedTransacoes)
UnpaidInvoices(u, m, y) ==
    SumTo([k \in 1..MaxSeedFaturas |->
             IF k \in DOMAIN faturas /\ faturas[k].user_id = u /\ ~faturas[k].pago
                /\ faturas[k].mes = m /\ faturas[k].ano = y
             THEN faturas[k].valor ELSE 0], MaxSeedFaturas)
SalaryBaseline(u) == IF users[u].salario = None THEN 0 ELSE Get(users[u].salario)

\* The scenario of the design: salary 3000, an income of 500 and an expense of 200
\* in March 2024, one unpaid invoice of 800 for March 2024.
Scenario ==
    /\ users[1].salario = Some(3000)
    /\ \E i, j \in DOMAIN transacoes :
          /\ DOMAIN transacoes = {i, j}
          /\ transacoes[i] = TransacaoRow(1, TransacaoPayload(None, None, "receita", 500, Mar2024))
          /\ transacoes[j] = TransacaoRow(1, TransacaoPayload(None, None, "gasto", 200, Mar2024))
    /\ \E i \in DOMAIN faturas :
          /\ DOMAIN faturas = {i}
          /\ faturas[i] = FaturaRow(1, FaturaPayload(None, None, 800, 3, 2024, FALSE))

\* C8: every dashboard answer for user u and period (m, y) is total_income =
\* salary + income transactions of u dated in the period, total_expense = expense
\* transactions of u dated in the period, unpaid_invoices = the unpaid invoices of
\* u whose stored month and year are the period (each duplicate counted),
\* current_balance = total_income - total_expense, debt_scoreboard =
\* current_balance - unpaid_invoices; in the scenario of the design the answer for
\* March 2024 is 3500, 200, 800, 3300, 2500.
C8_SummaryFormula ==
    DashboardServed =>
        LET u == Caller(last.args.token)
            m == AskedMes
            y == AskedAno
            total_income == SalaryBaseline(u) + IncomeTx(u, m, y)
            total_expense == ExpenseTx(u, m, y)
            unpaid_invoices == UnpaidInvoices(u, m, y)
            d == Get(last.out)
        IN /\ d.total_receitas = total_income
           /\ d.total_gastos = total_expense
           /\ d.total_dividas_abertas = unpaid_invoices
           /\ d.saldo_atual = total_income - total_expense
           /\ d.placar_dividas = (total_income - total_expense) - unpaid_invoices
           /\ (Scenario /\ u = 1 /\ m = 3 /\ y = 2024) =>
                 d = DashboardData(3500, 200, 800, 3300, 2500)

\* Witness of C8: the dashboard was asked for March 2024 in the scenario.
C8_Witness ==
    /\ DashboardServed
    /\ Scenario
    /\ Caller(last.args.token) = 1
    /\ last.args.mes = Some(3) /\ last.args.ano = Some(2024)
    /\ Get(last.out) = DashboardData(3500, 200, 800, 3300, 2500)

\* Two identical unpaid invoices are both counted.
C8_WitnessDuplicates ==
    /\ DashboardServed
    /\ DOMAIN faturas = {1, 2} /\ faturas[1] = faturas[2]
    /\ Get(last.out).total_dividas_abertas = 2 * faturas[1].valor
    /\ faturas[1].valor > 0

\* The user holds nothing in the period asked about.
NothingInPeriod(u, m, y) ==
    /\ \A k \in DOMAIN transacoes :
          ~(transacoes[k].user_id = u /\ transacoes[k].data.month = m /\ transacoes[k].data.year = y)
    /\ \A k \in DOMAIN faturas :
          ~(faturas[k].user_id = u /\ faturas[k].mes = m /\ faturas[k].ano = y)

\* C9: when the user has no transaction dated in the period and no invoice
\* referencing it, whatever else the ledger holds, the dashboard answers
\* total_expense = 0, unpaid_invoices = 0 and total_income = current_balance =
\* debt_scoreboard = the salary baseline, an unset salary counting as 0.
C9_EmptyPeriod ==
    (DashboardServed /\ NothingInPeriod(Caller(last.args.token), AskedMes, AskedAno)) =>
        LET base == SalaryBaseline(Caller(last.args.token))
        IN Get(last.out) = DashboardData(base, 0, 0, base, base)

\* Witness of C9: the user with the unset salary holds nothing in the period, the
\* other user holds a transaction and an unpaid invoice in it, and the answer is
\* all zeros.
C9_Witness ==
    /\ DashboardServed
    /\ Caller(last.args.token) = 2
    /\ users[2].salario = None
    /\ NothingInPeriod(2, AskedMes, AskedAno)
    /\ ~NothingInPeriod(1, AskedMes, AskedAno)
    /\ \E k \in DOMAIN faturas : faturas[k].mes = AskedMes /\ faturas[k].ano = AskedAno /\ ~faturas[k].pago
    /\ \E k \in DOMAIN transacoes : transacoes[k].data.month = AskedMes /\ transacoes[k].data.year = AskedAno
    /\ Get(last.out) = DashboardData(0, 0, 0, 0, 0)

\* The dashboard of the owner before and after an invoice is marked paid.
C10_Step ==
    \A i \in DOMAIN faturas :
        (/\ last'.op = "atualizar_fatura" /\ IsSuccess(last'.result) /\ last'.args.id = i
         /\ faturas[i].pago = FALSE
         /\ faturas' = [faturas EXCEPT ![i].pago = TRUE])
        => LET u == faturas[i].user_id
               before == Dashboard(u, faturas[i].mes, faturas[i].ano, users, transacoes, faturas)
               after == Dashboard(u, faturas[i].mes, faturas[i].ano, users', transacoes', faturas')
           IN /\ after.total_dividas_abertas = before.total_dividas_abertas - faturas[i].valor
              /\ after.placar_dividas = before.placar_dividas + faturas[i].valor
              /\ after.total_receitas = before.total_receitas
              /\ after.total_gastos = before.total_gastos
              /\ after.saldo_atual = before.saldo_atual
\* C10: a step in which the owner's update turns an unpaid invoice i to paid and
\* keeps its other fields makes the dashboard of the owner for i's period report
\* unpaid_invoices lower by i's amount and debt_scoreboard higher by i's amount,
\* with total_income, total_expense and current_balance as before.
C10_PaidInvoiceLeavesSummary == [][C10_Step]_vars

\* Witness of C10: the owner's update has just turned an unpaid invoice to paid,
\* every other field kept, while a second unpaid invoice of the period remains.
C10_Witness ==
    /\ last.op = "atualizar_fatura" /\ IsSuccess(last.result)
    /\ last.found # None
    /\ Get(last.found).pago = FALSE
    /\ faturas[last.args.id] = [Get(last.found) EXCEPT !.pago = TRUE]
    /\ \E k \in DOMAIN faturas : k # last.args.id /\ faturas[k] = Get(last.found)

(***************************************************************************)
(* Two users on one ledger: every handler of /transacoes, /cartoes and     *)
(* /dashboard and PUT /users/me, with the token of either user, on a       *)
(* ledger where the first user already holds a transaction and an invoice. *)
(***************************************************************************)
SharedTransacoes == {TransacaoDeOutro}
SharedFaturas == {FaturaPayload(None, None, 800, 3, 2024, FALSE)}
SharedSalarios == {Some(0)}
AskedPeriods == {<<None, None>>}

InitShared ==
    /\ users = RegisteredUsers
    /\ transacoes = FullTable(<<SeedTransacoes[1]>>)
    /\ faturas = FullTable(<<SeedFaturas[1]>>)
    /\ regs = [r \in 1..MaxRegs |-> IdleReg]
    /\ now = 0
    /\ bearer = None
    /\ last = NoLast

NextShared ==
    \/ \E token \in CallerTokens, payload \in SharedTransacoes :
          NextId(transacoes) <= MaxSharedTransacoes /\ criar_transacao(token, payload)
    \/ \E token \in CallerTokens, id \in 1..MaxSharedTransacoes, payload \in SharedTransacoes :
          atualizar_transacao(token, id, payload)
    \/ \E token \in CallerTokens, id \in 1..MaxSharedTransacoes : deletar_transacao(token, id)
    \/ \E token \in CallerTokens : listar_transacoes(token)
    \/ \E token \in CallerTokens, payload \in SharedFaturas :
          NextId(faturas) <= MaxSharedFaturas /\ adicionar_fatura(token, payload)
    \/ \E token \in CallerTokens, id \in 1..MaxSharedFaturas, payload \in SharedFaturas :
          atualizar_fatura(token, id, payload)
    \/ \E token \in CallerTokens, id \in 1..MaxSharedFaturas : deletar_fatura(token, id)
    \/ \E token \in CallerTokens : listar_faturas(token)
    \/ \E token \in CallerTokens, salario \in SharedSalarios : update_me(token, salario)
    \/ \E token \in CallerTokens, p \in AskedPeriods : get_dashboard_data(token, p[1], p[2])

SpecShared == InitShared /\ [][NextShared]_vars

(***************************************************************************)
(* The account over time: claims.                                          *)
(***************************************************************************)
ReadOps == {"get_me", "get_dashboard_data"}

\* A read leaves the three tables alone.
ReadFrame ==
    (last' # last /\ last'.op \in ReadOps) => UNCHANGED <<users, transacoes, faturas>>

C12_Step ==
    (last' # last /\ last'.op = "update_me") =>
        LET u == Caller(last'.args.token)
            new_salary == last'.args.salario
        IN /\ UNCHANGED <<transacoes, faturas>>
           /\ DOMAIN users' = DOMAIN users
           /\ ~IsSuccess(last'.result) => UNCHANGED users
           /\ IsSuccess(last'.result) =>
                 /\ \A id \in DOMAIN users \ {u} : users'[id] = users[id]
                 /\ users'[u].email = users[u].email
                 /\ users'[u].hashed_password = users[u].hashed_password
                 /\ new_salary # None => users'[u].salario = new_salary
                 /\ new_salary = None => users'[u].salario = users[u].salario
                 /\ Get(last'.out) = UserOut(u, users'[u])
\* C12: a step that serves update_me for a resolved user sets that user's salario
\* to the salary of the payload when one is given (0 and negative values
\* included) and keeps it when none is given; the user's id, email and password
\* hash, every other User row and every Transacao and CartaoFatura row are as
\* before; a refused update_me changes nothing.
C12_UpdateSelf == [][C12_Step]_vars

\* Witness of C12: the first user's salary has been set to a negative value, and
\* the rest of the row, the other user and the ledger are as they were created.
C12_Witness ==
    /\ last.op = "update_me" /\ IsSuccess(last.result)
    /\ last.args.salario = Some(0 - 50)
    /\ Get(last.out).id = 1
    /\ users[1] = [RegisteredUsers[1] EXCEPT !.salario = Some(0 - 50)]
    /\ users[2] = RegisteredUsers[2]
    /\ transacoes = FullTable(SeedTransacoes) /\ faturas = FullTable(SeedFaturas)

\* The salary has been set to 0, and a later update without a salary kept it.
C12_WitnessZeroKept ==
    /\ last.op = "update_me" /\ IsSuccess(last.result)
    /\ last.args.salario = None
    /\ Get(last.out).salario = Some(0)
    /\ Get(last.out).id = 1

(***************************************************************************)
(* The ledger: ownership, kinds and the order of the checks.               *)
(***************************************************************************)
\* Every row is owned by a user that exists.
C13_OwnerExists ==
    /\ \A id \in DOMAIN transacoes : transacoes[id].user_id \in DOMAIN users
    /\ \A id \in DOMAIN faturas : faturas[id].user_id \in DOMAIN users

\* A row that stays keeps its owner; a new row is the one a create answered with,
\* under the key the database chose, owned by the caller of that create.
C13_Step ==
    /\ \A id \in DOMAIN transacoes \cap DOMAIN transacoes' :
          transacoes'[id].user_id = transacoes[id].user_id
    /\ \A id \in DOMAIN faturas \cap DOMAIN faturas' :
          faturas'[id].user_id = faturas[id].user_id
    /\ \A id \in DOMAIN transacoes' \ DOMAIN transacoes :
          /\ last'.op = "criar_transacao" /\ IsSuccess(last'.result)
          /\ id = NextId(transacoes) /\ Get(last'.out).id = id
          /\ transacoes'[id].user_id = Caller(last'.args.token)
          /\ \E payload \in LedgerTransacoes :
                Get(last'.out).row = TransacaoRow(Caller(last'.args.token), payload)
    /\ \A id \in DOMAIN faturas' \ DOMAIN faturas :
          /\ last'.op = "adicionar_fatura" /\ IsSuccess(last'.result)
          /\ id = NextId(faturas) /\ Get(last'.out).id = id
          /\ faturas'[id].user_id = Caller(last'.args.token)
          /\ \E payload \in LedgerFaturas :
                Get(last'.out).row = FaturaRow(Caller(last'.args.token), payload)
\* C13: in every reachable state each Transacao and each CartaoFatura row has a
\* user_id that is the id of an existing User; a row enters a table only by a
\* create, under the key the database chose and with the user_id of the
\* authenticated caller, whatever id or user_id the request body names; and no
\* step, by any caller, changes the user_id of a row.
C13_OwnerImmutable == [](C13_OwnerExists) /\ [][C13_Step]_vars

\* Witness of C13: the first user updated a transaction of their own with a body
\* that names id 9 and owner 2; the row took the body's fields, and it is still
\* row last.args.id of user 1.
C13_Witness ==
    /\ last.op = "atualizar_transacao" /\ IsSuccess(last.result)
    /\ Caller(last.args.token) = 1
    /\ TransacaoDeOutro.user_id = Some(2)
    /\ Get(last.found) # TransacaoRow(1, TransacaoDeOutro)
    /\ Get(last.found).user_id = 1
    /\ transacoes[last.args.id] = TransacaoRow(1, TransacaoDeOutro)

\* A created invoice whose body names owner 2 is owned by its creator, user 1.
C13_WitnessCreate ==
    /\ last.op = "adicionar_fatura" /\ IsSuccess(last.result)
    /\ Caller(last.args.token) = 1
    /\ faturas[last.args.id] = FaturaRow(1, FaturaDeOutro)

Kinds == {"receita", "gasto"}

\* C14 (as claimed): in every reachable state every stored Transacao has tipo
\* "receita" or "gasto", so that for its owner and the month and year of its date
\* it is counted in exactly one of the two sums of the dashboard.
C14_KindEnumerated ==
    \A id \in DOMAIN transacoes :
        LET t == transacoes[id]
        IN /\ t.tipo \in Kinds
           /\ TransacaoDoPeriodo(t, t.user_id, "receita", t.data.month, t.data.year)
                # TransacaoDoPeriodo(t, t.user_id, "gasto", t.data.month, t.data.year)

\* The order of the checks of the four update and delete handlers, for a caller
\* that get_current_user resolved.
C15_Step ==
    LET id == last'.args.id
        u == Caller(last'.args.token)
        served == last' # last /\ u \in DOMAIN users
    IN /\ (served /\ last'.op \in {"atualizar_transacao", "deletar_transacao"}) =>
            /\ id \notin DOMAIN transacoes =>
                  (IsNotFoundError(last'.result) /\ UNCHANGED <<users, transacoes, faturas>>)
            /\ IsForbiddenError(last'.result) =>
                  (id \in DOMAIN transacoes /\ transacoes[id].user_id # u)
            /\ (id \in DOMAIN transacoes /\ transacoes[id].user_id = u) => IsSuccess(last'.result)
            /\ IsSuccess(last'.result) => (id \in DOMAIN transacoes /\ transacoes[id].user_id = u)
            /\ ~IsSuccess(last'.result) => UNCHANGED <<users, transacoes, faturas>>
            /\ (IsSuccess(last'.result) /\ last'.op = "deletar_transacao") =>
                  transacoes' = [k \in DOMAIN transacoes \ {id} |-> transacoes[k]]
            /\ (last.op = "deletar_transacao" /\ IsSuccess(last.result) /\ last.args.id = id) =>
                  IsNotFoundError(last'.result)
       /\ (served /\ last'.op \in {"atualizar_fatura", "deletar_fatura"}) =>
            /\ id \notin DOMAIN faturas =>
                  (IsNotFoundError(last'.result) /\ UNCHANGED <<users, transacoes, faturas>>)
            /\ IsForbiddenError(last'.result) =>
                  (id \in DOMAIN faturas /\ faturas[id].user_id # u)
            /\ (id \in DOMAIN faturas /\ faturas[id].user_id = u) => IsSuccess(last'.result)
            /\ IsSuccess(last'.result) => (id \in DOMAIN faturas /\ faturas[id].user_id = u)
            /\ ~IsSuccess(last'.result) => UNCHANGED <<users, transacoes, faturas>>
            /\ (IsSuccess(last'.result) /\ last'.op = "deletar_fatura") =>
                  faturas' = [k \in DOMAIN faturas \ {id} |-> faturas[k]]
            /\ (last.op = "deletar_fatura" /\ IsSuccess(last.result) /\ last.args.id = id) =>
                  IsNotFoundError(last'.result)
\* C15: a step that serves an update or a delete of a Transacao or CartaoFatura
\* for a resolved caller answers 404 and changes nothing when no row has the id,
\* whoever the caller is; answers 403 only for a row that exists and is owned by
\* another user; changes the table exactly when the row exists and is owned by
\* the caller; a successful delete removes the row and nothing else; and the
\* update or delete of the same id served next after a successful delete
\* answers 404.
C15_ExistenceThenOwnership == [][C15_Step]_vars

\* Witness of C15: an update of id 1 got 404 while id 2 is stored: the keys are
\* given in order, so row 1 was created and has been deleted.
C15_Witness ==
    /\ last.op = "atualizar_transacao" /\ IsNotFoundError(last.result)
    /\ last.args.id = 1
    /\ DOMAIN transacoes = {2}

\* A caller who owns no row got 404, not 403, for an id that names no row.
C15_WitnessNotFoundForAnyCaller ==
    /\ last.op = "deletar_transacao" /\ IsNotFoundError(last.result)
    /\ \A id \in DOMAIN transacoes : transacoes[id].user_id # Caller(last.args.token)
    /\ transacoes # EmptyTable

(***************************************************************************)
(* Two users on one ledger: claims.                                        *)
(***************************************************************************)
SharedPeriods == {<<3, 2024>>, <<4, 2024>>}

\* What user A can be answered on the tables U, T, F: the dashboard of every
\* period and the possible listings.
ViewOf(A, U, T, F) ==
    [dashboard |-> [p \in SharedPeriods |-> Dashboard(A, p[1], p[2], U, T, F)],
     transacoes |-> ListagemTransacoes(A, T),
     faturas |-> ListagemFaturas(A, F)]

\* The rows of table that user A owns.
RowsOf(A, table) == [k \in {x \in DOMAIN table : table[x].user_id = A} |-> table[k]]

\* The answers of A are those computed from A's User row and A's rows alone.
C16_OwnData ==
    \A A \in DOMAIN users :
        ViewOf(A, users, transacoes, faturas)
          = ViewOf(A, [k \in {A} |-> users[k]], RowsOf(A, transacoes), RowsOf(A, faturas))

\* A request served for another caller leaves the answers of A as they were.
C16_Step ==
    \A A \in DOMAIN users :
        (last' # last /\ Caller(last'.args.token) # A) =>
            \/ UNCHANGED <<users, transacoes, faturas>>
            \/ ViewOf(A, users', transacoes', faturas') = ViewOf(A, users, transacoes, faturas)
\* C16: for two distinct users A and B, no step that serves a request made with
\* B's token (create, update or delete of a transaction or an invoice, update_me,
\* the dashboard, a listing) changes the dashboard of A for any period or the
\* listings of A's transactions and invoices; and in every state those answers
\* are the ones computed from A's salario and the rows whose user_id is A's id.
C16_Isolation == [](C16_OwnData) /\ [][C16_Step]_vars

\* Witness of C16: user 2 has just added an unpaid invoice for March 2024, the
\* period in which user 1 holds a transaction and an unpaid invoice of their own.
C16_Witness ==
    /\ last.op = "adicionar_fatura" /\ IsSuccess(last.result)
    /\ Caller(last.args.token) = 2
    /\ faturas[last.args.id] = FaturaRow(2, FaturaPayload(None, None, 800, 3, 2024, FALSE))
    /\ \E k \in DOMAIN faturas : faturas[k] = FaturaRow(1, FaturaPayload(None, None, 800, 3, 2024, FALSE))
    /\ \E k \in DOMAIN transacoes : transacoes[k].user_id = 1 /\ transacoes[k].data = Mar2024
    /\ users[2].salario = Some(0)

\* User 2 was refused the delete of user 1's transaction.
C16_WitnessRefused ==
    /\ last.op = "deletar_transacao" /\ IsForbiddenError(last.result)
    /\ Caller(last.args.token) = 2
    /\ transacoes[last.args.id].user_id = 1

====
